---- MODULE Spec2Model ----
(***************************************************************************)
(* Job orchestration of the XBRL converter suite: the conversion job       *)
(* record (JobQueueService), the processing pipeline that drives it        *)
(* (ConversionService.processDocument), the retry timers, and the two job  *)
(* requests of the HTTP API (DELETE = cancel, POST = retry); then the      *)
(* services the pipeline calls: the learned-mapping table and the staged   *)
(* matching of TaxonomyMappingService, the document XBRLGenerator builds,  *)
(* and the parser selection of ParserFactory.                              *)
(***************************************************************************)
EXTENDS Integers, Sequences, FiniteSets, TLC

VARIABLES
    jobs,      \* conversion_jobs table: job id -> row (NoJob when no row)
    pc,        \* per job id: the await processDocument is suspended at
    arg,       \* per job id: the documentId argument of the call in flight
    exc,       \* per job id: message of the exception caught by processDocument
    timers,    \* setTimeout callbacks not yet fired: [job, delay]
    failures,  \* per job id: failed attempts handled so far (saturating)
    manual,    \* per job id: retry requests accepted so far (saturating)
    last,      \* the operation that produced the current state
    log,       \* per job id: processingLogs of the processDocument call in flight
    initiated, \* per job id: what initiateConversion returned for it
    snap,      \* the job a POST handler in flight has read, not yet written
    taxonomyMappings, \* taxonomy_mappings table: the rows of one source label
    calls,     \* createMapping calls: where each is, and what it has read
    given,     \* the arguments of the service call under examination
    result     \* what that call returned

\* The state of the services beside the job queue.
services == <<taxonomyMappings, calls, given, result>>

\* The state of the job queue and of the calls working on its jobs.
queue == <<jobs, pc, arg, exc, timers, failures, manual, last, log, initiated,
           snap>>

vars == <<jobs, pc, arg, exc, timers, failures, manual, last, log, initiated,
          snap, services>>

----------------------------------------------------------------------------
(* Bound of the model: the history counters saturate at it. *)

FailCap == 4

(* Program constants *)

MAX_RETRIES == 3
RETRY_DELAY_MS == 5000
RETRY_LIMIT == 3

\* One job row: every operation reads and writes only the row it names.
JobIds == {1}
\* processDocument takes any job id: id 0 stands for one that has no row.
CallIds == JobIds \cup {0}

\* Document ids a caller may name; "doc-gone" has no row.
DocumentIds == {"doc-csv", "doc-excel", "doc-txt", "doc-gone"}
\* documents table: id -> file_type, a sequence of characters.
documents ==
    [d \in DocumentIds \ {"doc-gone"} |->
        CASE d = "doc-csv" -> <<"c", "s", "v">>
          [] d = "doc-excel" -> <<"e", "x", "c", "e", "l">>
          [] d = "doc-txt" -> <<"t", "x", "t">>]

NoJob == [documentId |-> "", status |-> "absent", progress |-> 0,
          retryCount |-> 0, errorMessage |-> "", outputUrl |-> "",
          processingLog |-> <<>>]

\* No initiateConversion has returned a result for the job.
NoResult == [success |-> FALSE, jobId |-> 0, documentId |-> ""]

\* No POST handler is between its read of the job and its write.
NoSnap == [job |-> 0, status |-> "absent", retryCount |-> 0]

getJob(j) == IF j \in JobIds THEN jobs[j] ELSE NoJob

Exists(j) == getJob(j).status # "absent"

----------------------------------------------------------------------------
(* JobQueueService *)

\* createJob: the inserted row.
NewJob(d) == [documentId |-> d, status |-> "pending", progress |-> 0,
              retryCount |-> 0, errorMessage |-> "", outputUrl |-> "",
              processingLog |-> <<>>]

\* updateJob: the row after db.update(...).set(data); data is a record holding
\* a subset of the row's columns.
updateJob(row, data) ==
    [f \in DOMAIN row |-> IF f \in DOMAIN data THEN data[f] ELSE row[f]]

Clamp(p) == IF p < 0 THEN 0 ELSE IF p > 100 THEN 100 ELSE p

\* updateJobProgress: writes Math.max(0, Math.min(100, progress)).
updateJobProgress(row, p) == [row EXCEPT !.progress = Clamp(p)]

\* scheduleRetry: `Retrying (attempt ${retryCount}/${MAX_RETRIES})`.
RetryMessage(retryCount) ==
    "Retrying (attempt " \o ToString(retryCount) \o "/"
        \o ToString(MAX_RETRIES) \o ")"

RetryDelayFlat(retryCount) == RETRY_DELAY_MS

\* scheduleRetry: the setTimeout delay.
RetryDelay(retryCount) == RETRY_DELAY_MS * retryCount

\* scheduleRetry: the row after its updateJob call.
RetryRow(row, retryCount) ==
    updateJob(row, [status |-> "pending", retryCount |-> retryCount,
                    errorMessage |-> RetryMessage(retryCount), progress |-> 0])

\* scheduleRetry: the timer handed to setTimeout.
RetryTimer(j, retryCount) == [job |-> j, delay |-> RetryDelay(retryCount)]

ShouldRetryOffByOne(row) == row.retryCount <= MAX_RETRIES

\* markJobAsFailed: "Check if we should retry".
ShouldRetry(row) == row.retryCount < MAX_RETRIES

\* markJobAsFailed: the permanently failed row.
FailedRow(row, msg) == updateJob(row, [status |-> "failed", errorMessage |-> msg])

Bump(n) == IF n < FailCap THEN n + 1 ELSE FailCap

\* What the operation just performed was: its name, the job it named, whether
\* it went through, the delay of the retry it scheduled (0: none), and, when it
\* settled a processDocument call, how ("" otherwise) and how many times that
\* call had invoked markJobAsFailed.
Settled(op, j, ok, delay, returned, markCalls) ==
    [op |-> op, job |-> j, accepted |-> ok, delay |-> delay,
     returned |-> returned, markCalls |-> markCalls]

Did(op, j, ok, delay) == Settled(op, j, ok, delay, "", 0)

\* createJob: the insert; document_id references documents.id, so the insert
\* of a row that names no document throws and leaves no row.
createJob(d) ==
    /\ \E j \in JobIds :
          /\ ~Exists(j)
          /\ \A i \in JobIds : i < j => Exists(i)
          /\ jobs' = [jobs EXCEPT ![j] =
                         IF d \in DOMAIN documents THEN NewJob(d) ELSE @]
          /\ last' = Did("createJob", j, d \in DOMAIN documents, 0)
    /\ UNCHANGED <<pc, arg, exc, timers, failures, manual>>
    /\ UNCHANGED <<log, initiated, snap, services>>

\* processRetry: the setTimeout callback; it reads the job and only logs.
processRetry(t) ==
    /\ t \in timers
    /\ timers' = timers \ {t}
    /\ last' = Did("processRetry", t.job, getJob(t.job).status = "pending", 0)
    /\ UNCHANGED <<jobs, pc, arg, exc, failures, manual>>
    /\ UNCHANGED <<log, initiated, snap, services>>


----------------------------------------------------------------------------
(* ParserFactory. Format identifiers are sequences of characters. *)

UpperCase == <<"A", "B", "C", "D", "E", "F", "G", "H", "I", "J", "K", "L", "M",
               "N", "O", "P", "Q", "R", "S", "T", "U", "V", "W", "X", "Y", "Z">>
LowerCase == <<"a", "b", "c", "d", "e", "f", "g", "h", "i", "j", "k", "l", "m",
               "n", "o", "p", "q", "r", "s", "t", "u", "v", "w", "x", "y", "z">>
Digits == {"0", "1", "2", "3", "4", "5", "6", "7", "8", "9"}

\* String.prototype.toLowerCase
toLowerCase(s) ==
    [i \in 1..Len(s) |->
        IF \E k \in 1..Len(UpperCase) : UpperCase[k] = s[i]
        THEN LowerCase[CHOOSE k \in 1..Len(UpperCase) : UpperCase[k] = s[i]]
        ELSE s[i]]

\* String.prototype.includes
Includes(s, sub) ==
    \E i \in 0..(Len(s) - Len(sub)) : SubSeq(s, i + 1, i + Len(sub)) = sub

\* String.prototype.trim, for a string whose only white space is blanks
Trim(s) ==
    LET inked == {i \in 1..Len(s) : s[i] # " "} IN
    IF inked = {} THEN <<>>
    ELSE SubSeq(s, CHOOSE i \in inked : \A k \in inked : i <= k,
                   CHOOSE i \in inked : \A k \in inked : i >= k)

\* replace(/[^a-z0-9]/g, ' ')
BlankNonAlnum(s) ==
    [i \in 1..Len(s) |->
        IF s[i] \in Digits \/ (\E k \in 1..Len(LowerCase) : LowerCase[k] = s[i])
        THEN s[i] ELSE " "]

\* map[key]: the value of the row keyed key, or missing when there is none.
Lookup(rows, key, missing) ==
    IF \E i \in 1..Len(rows) : rows[i][1] = key
    THEN rows[CHOOSE i \in 1..Len(rows) : rows[i][1] = key][2]
    ELSE missing

\* initializeParsers: registered key, parser.
parsers == <<
    <<<<"c", "s", "v">>, "CsvParser">>,
    <<<<"e", "x", "c", "e", "l">>, "ExcelParser">>,
    <<<<"x", "l", "s", "x">>, "ExcelParser">>,
    <<<<"x", "l", "s">>, "ExcelParser">>,
    <<<<"p", "d", "f">>, "PdfParser">>,
    <<<<"j", "s", "o", "n">>, "JsonParser">>,
    <<<<"x", "b", "r", "l">>, "XbrlParser">>,
    <<<<"x", "m", "l">>, "XbrlParser">>
>>

\* getParserByMimeType: MIME type, registered key.
mimeToTypeMap == <<
    <<<<"t", "e", "x", "t", "/", "c", "s", "v">>, <<"c", "s", "v">>>>,
    <<<<"a", "p", "p", "l", "i", "c", "a", "t", "i", "o", "n", "/", "c", "s", "v">>, <<"c", "s", "v">>>>,
    <<<<"a", "p", "p", "l", "i", "c", "a", "t", "i", "o", "n", "/", "v", "n", "d", ".", "m", "s", "-", "e", "x", "c", "e", "l">>, <<"e", "x", "c", "e", "l">>>>,
    <<<<"a", "p", "p", "l", "i", "c", "a", "t", "i", "o", "n", "/", "v", "n", "d", ".", "o", "p", "e", "n", "x", "m", "l", "f", "o", "r", "m", "a", "t", "s", "-", "o", "f", "f", "i", "c", "e", "d", "o", "c", "u", "m", "e", "n", "t", ".", "s", "p", "r", "e", "a", "d", "s", "h", "e", "e", "t", "m", "l", ".", "s", "h", "e", "e", "t">>, <<"e", "x", "c", "e", "l">>>>,
    <<<<"a", "p", "p", "l", "i", "c", "a", "t", "i", "o", "n", "/", "v", "n", "d", ".", "m", "s", "-", "e", "x", "c", "e", "l", ".", "s", "h", "e", "e", "t", ".", "m", "a", "c", "r", "o", "e", "n", "a", "b", "l", "e", "d", ".", "1", "2">>, <<"e", "x", "c", "e", "l">>>>,
    <<<<"a", "p", "p", "l", "i", "c", "a", "t", "i", "o", "n", "/", "p", "d", "f">>, <<"p", "d", "f">>>>,
    <<<<"a", "p", "p", "l", "i", "c", "a", "t", "i", "o", "n", "/", "j", "s", "o", "n">>, <<"j", "s", "o", "n">>>>,
    <<<<"t", "e", "x", "t", "/", "j", "s", "o", "n">>, <<"j", "s", "o", "n">>>>,
    <<<<"a", "p", "p", "l", "i", "c", "a", "t", "i", "o", "n", "/", "x", "m", "l">>, <<"x", "b", "r", "l">>>>,
    <<<<"t", "e", "x", "t", "/", "x", "m", "l">>, <<"x", "b", "r", "l">>>>,
    <<<<"a", "p", "p", "l", "i", "c", "a", "t", "i", "o", "n", "/", "x", "b", "r", "l", "+", "x", "m", "l">>, <<"x", "b", "r", "l">>>>,
    <<<<"a", "p", "p", "l", "i", "c", "a", "t", "i", "o", "n", "/", "x", "b", "r", "l">>, <<"x", "b", "r", "l">>>>,
    <<<<"t", "e", "x", "t", "/", "p", "l", "a", "i", "n">>, <<"c", "s", "v">>>>
>>

\* getParserByExtension: extension, registered key.
extensionToTypeMap == <<
    <<<<"x", "l", "s", "x">>, <<"e", "x", "c", "e", "l">>>>,
    <<<<"x", "l", "s">>, <<"e", "x", "c", "e", "l">>>>,
    <<<<"x", "l", "s", "m">>, <<"e", "x", "c", "e", "l">>>>,
    <<<<"c", "s", "v">>, <<"c", "s", "v">>>>,
    <<<<"t", "s", "v">>, <<"c", "s", "v">>>>,
    <<<<"p", "d", "f">>, <<"p", "d", "f">>>>,
    <<<<"j", "s", "o", "n">>, <<"j", "s", "o", "n">>>>,
    <<<<"j", "s", "o", "n", "l">>, <<"j", "s", "o", "n">>>>,
    <<<<"x", "m", "l">>, <<"x", "m", "l">>>>,
    <<<<"x", "b", "r", "l">>, <<"x", "b", "r", "l">>>>,
    <<<<"x", "s", "d">>, <<"x", "m", "l">>>>
>>

\* getParserByFuzzyMatch: alias keyword, registered key, in entry order.
fuzzyMatches == <<
    <<<<"s", "p", "r", "e", "a", "d", "s", "h", "e", "e", "t">>, <<"e", "x", "c", "e", "l">>>>,
    <<<<"e", "x", "c", "e", "l", "-", "f", "i", "l", "e">>, <<"e", "x", "c", "e", "l">>>>,
    <<<<"c", "o", "m", "m", "a", "-", "s", "e", "p", "a", "r", "a", "t", "e", "d", "-", "v", "a", "l", "u", "e", "s">>, <<"c", "s", "v">>>>,
    <<<<"f", "i", "n", "a", "n", "c", "i", "a", "l", "-", "r", "e", "p", "o", "r", "t">>, <<"x", "b", "r", "l">>>>,
    <<<<"s", "t", "r", "u", "c", "t", "u", "r", "e", "d", "-", "d", "a", "t", "a">>, <<"j", "s", "o", "n">>>>
>>

\* this.parsers.get(key), or none when the key is not registered. The empty
\* string stands for an undefined key as well: neither is registered.
parserOf(key) == Lookup(parsers, key, "none")

getParserByMimeType(mimeType) ==
    parserOf(Lookup(mimeToTypeMap, toLowerCase(mimeType), <<>>))

getParserByExtension(fileType) ==
    LET cleanExtension == IF Len(fileType) > 0 /\ fileType[1] = "."
                          THEN Tail(fileType) ELSE fileType
    IN  parserOf(Lookup(extensionToTypeMap, toLowerCase(cleanExtension), <<>>))

\* The first alias, in entry order, that the normalised input contains or that
\* contains the normalised input.
getParserByFuzzyMatch(fileType) ==
    LET normalizedInput == Trim(BlankNonAlnum(toLowerCase(fileType)))
        hits == {i \in 1..Len(fuzzyMatches) :
                    \/ Includes(normalizedInput, fuzzyMatches[i][1])
                    \/ Includes(fuzzyMatches[i][1], normalizedInput)}
    IN  IF hits = {} THEN "none"
        ELSE parserOf(fuzzyMatches[CHOOSE i \in hits : \A k \in hits : i <= k][2])

\* getParser(fileType, mimeType); an absent mimeType is the empty string, which
\* `if (mimeType)` skips alike.
getParser(fileType, mimeType) ==
    LET normalizedFileType == toLowerCase(fileType) IN
    IF parserOf(normalizedFileType) # "none" THEN parserOf(normalizedFileType)
    ELSE IF Len(mimeType) > 0 /\ getParserByMimeType(mimeType) # "none"
         THEN getParserByMimeType(mimeType)
    ELSE IF getParserByExtension(fileType) # "none"
         THEN getParserByExtension(fileType)
    ELSE getParserByFuzzyMatch(normalizedFileType)

----------------------------------------------------------------------------
(* ConversionService.processDocument *)

CheckpointSwapped == [p10 |-> 10, p30 |-> 60, p60 |-> 30, p80 |-> 80, p100 |-> 100]

\* The progress checkpoint written after each step, and the step that follows.
Checkpoint == [p10 |-> 10, p30 |-> 30, p60 |-> 60, p80 |-> 80, p100 |-> 100]
AfterCheckpoint == [p10 |-> "parse", p30 |-> "map", p60 |-> "generate",
                    p80 |-> "save", p100 |-> "complete"]
Checkpoints == DOMAIN Checkpoint

Throw(j, msg) ==
    /\ pc' = [pc EXCEPT ![j] = "catch"]
    /\ exc' = [exc EXCEPT ![j] = msg]
    /\ arg' = arg

Goto(j, where) ==
    /\ pc' = [pc EXCEPT ![j] = where]
    /\ exc' = [exc EXCEPT ![j] = ""]
    /\ arg' = [arg EXCEPT ![j] = IF where = "idle" THEN "" ELSE @]

\* processingLogs.push({step, status}) for each of entries, in order.
Logged(j, entries) == log' = [log EXCEPT ![j] = @ \o entries]

\* The log entries of a step: started when it begins, completed when it returns.
Started(step) == [step |-> step, status |-> "started"]
Completed(step) == [step |-> step, status |-> "completed"]
StepLog(step, ok) ==
    IF ok THEN <<Started(step), Completed(step)>> ELSE <<Started(step)>>

\* A string of the characters of s.
Text(s) ==
    LET upTo[i \in 0..Len(s)] == IF i = 0 THEN "" ELSE upTo[i - 1] \o s[i]
    IN  upTo[Len(s)]

\* What `error instanceof Error ? error.message : 'Unknown error'` yields for
\* the failure of a store or service call.
Causes == {"Unknown error"}

UpdateJobFailed ==
    "Failed to update job: Cannot read properties of undefined (reading 'id')"
DocumentNotFound(documentId) == "Document not found: " \o documentId
NoParserAvailable(fileType) ==
    "Failed to parse financial data: No parser available for file type: "
        \o Text(fileType)
NoFinancialData == "No financial data could be extracted from the document"
MapFailed(cause) == "Failed to map to taxonomy: " \o cause
SaveFailed(cause) == "Failed to save conversion results: " \o cause

\* The call processDocument(jobId, documentId) and its first await:
\* updateJob(jobId, {status: 'processing', progress: 0}), which throws when the
\* update returns no row. Callers hand over the id of a job waiting to be
\* processed (created or returned to pending), or an id that names no row.
processDocument(j, d) ==
    /\ pc[j] = "idle"
    /\ j \in JobIds => jobs[j].status = "pending"
    /\ last' = Did("processDocument", j, Exists(j), 0)
    /\ IF Exists(j)
       THEN /\ jobs' = [jobs EXCEPT ![j] =
                          updateJob(@, [status |-> "processing", progress |-> 0])]
            /\ pc' = [pc EXCEPT ![j] = "retrieve"]
            /\ exc' = exc
       ELSE /\ jobs' = jobs
            /\ pc' = [pc EXCEPT ![j] = "catch"]
            /\ exc' = [exc EXCEPT ![j] = UpdateJobFailed]
    /\ arg' = [arg EXCEPT ![j] = d]
    /\ log' = [log EXCEPT ![j] = <<>>]
    /\ UNCHANGED <<timers, failures, manual, initiated, snap, services>>

\* Step 1: retrieveDocument(documentId); a null document is thrown as
\* `Document not found: ${documentId}`.
retrieveDocument(j) ==
    /\ pc[j] = "retrieve"
    /\ IF arg[j] \in DOMAIN documents
       THEN Goto(j, "p10")
       ELSE Throw(j, DocumentNotFound(arg[j]))
    /\ last' = Did("retrieveDocument", j, arg[j] \in DOMAIN documents, 0)
    /\ Logged(j, StepLog("retrieving_document", arg[j] \in DOMAIN documents))
    /\ UNCHANGED <<jobs, timers, failures, manual, initiated, snap, services>>

\* updateJobProgress(jobId, 10 | 30 | 60 | 80 | 100) after the step before it.
progressCheckpoint(j) ==
    /\ pc[j] \in Checkpoints
    /\ jobs' = [jobs EXCEPT ![j] = updateJobProgress(@, Checkpoint[pc[j]])]
    /\ Goto(j, AfterCheckpoint[pc[j]])
    /\ last' = Did("updateJobProgress", j, TRUE, 0)
    /\ UNCHANGED <<timers, failures, manual, log, initiated, snap, services>>

\* CsvParser.parse of the simulated file buffer Buffer.from(''): Papa.parse
\* yields no rows, 'CSV file is empty or contains no valid data' is caught
\* inside parse, and the report returned has no statements.
CsvParserParse == {FALSE}

\* PdfParser.parse of the same empty buffer: loading fails, the failure is
\* caught inside parse, and the report returned has no statements.
PdfParserParse == {FALSE}

\* ExcelParser, JsonParser and XbrlParser: parse returns a report that holds
\* statements or none and never throws.
OtherParserParse == BOOLEAN

\* parser.parse(buffer, fileName): whether the report holds statements.
parse(parser) ==
    CASE parser = "CsvParser" -> CsvParserParse
      [] parser = "PdfParser" -> PdfParserParse
      [] OTHER -> OtherParserParse

\* parserFactory.getParser(fileType), called without a MIME type, for the file
\* type of each document.
parserFor == [d \in DOMAIN documents |-> getParser(documents[d], <<>>)]

\* Step 2: parseFinancialData(storageUrl, fileName, fileType) and the check of
\* its report that follows.
parseFinancialData(j) ==
    /\ pc[j] = "parse"
    /\ LET parser == parserFor[arg[j]] IN
       IF parser = "none"
       THEN /\ Throw(j, NoParserAvailable(documents[arg[j]]))
            /\ last' = Did("parseFinancialData", j, FALSE, 0)
            /\ Logged(j, StepLog("parsing_document", FALSE))
       ELSE \E statements \in parse(parser) :
               /\ IF statements THEN Goto(j, "p30") ELSE Throw(j, NoFinancialData)
               /\ last' = Did("parseFinancialData", j, statements, 0)
               /\ Logged(j, StepLog("parsing_document", statements))
    /\ UNCHANGED <<jobs, timers, failures, manual, initiated, snap, services>>

\* Step 3: mapToTaxonomy; it rethrows what the mapping service throws.
mapToTaxonomy(j) ==
    /\ pc[j] = "map"
    /\ \/ /\ Goto(j, "p60")
          /\ last' = Did("mapToTaxonomy", j, TRUE, 0)
          /\ Logged(j, StepLog("taxonomy_mapping", TRUE))
       \/ \E cause \in Causes :
             /\ Throw(j, MapFailed(cause))
             /\ last' = Did("mapToTaxonomy", j, FALSE, 0)
             /\ Logged(j, StepLog("taxonomy_mapping", FALSE))
    /\ UNCHANGED <<jobs, timers, failures, manual, initiated, snap, services>>

\* Step 4: generateXBRL; the generator returns a result in every case, the
\* document or the result of its catch block. The completed entry of the log
\* has details.frameworks of the result: one framework for a document of
\* the statements, which are not none after step 2, and none for the result
\* of the catch block.
generateXBRL(j) ==
    /\ pc[j] = "generate"
    /\ Goto(j, "p80")
    /\ last' = Did("generateXBRL", j, TRUE, 0)
    /\ \E frameworks \in {0, 1} :
          Logged(j, <<Started("generating_xbrl"),
                     [step |-> "generating_xbrl", status |-> "completed",
                      frameworks |-> frameworks]>>)
    /\ UNCHANGED <<jobs, timers, failures, manual, initiated, snap, services>>

\* Step 5: saveConversionResults; it rethrows what the inserts throw.
saveConversionResults(j) ==
    /\ pc[j] = "save"
    /\ \/ /\ Goto(j, "p100")
          /\ last' = Did("saveConversionResults", j, TRUE, 0)
          /\ Logged(j, StepLog("saving_results", TRUE))
       \/ \E cause \in Causes :
             /\ Throw(j, SaveFailed(cause))
             /\ last' = Did("saveConversionResults", j, FALSE, 0)
             /\ Logged(j, StepLog("saving_results", FALSE))
    /\ UNCHANGED <<jobs, timers, failures, manual, initiated, snap, services>>

\* "Complete job": updateJob(jobId, {status: 'completed', outputUrl,
\* processingLog: processingLogs, ...}); return. The call's log ends with it.
completeJob(j) ==
    /\ pc[j] = "complete"
    /\ jobs' = [jobs EXCEPT ![j] =
                  updateJob(@, [status |-> "completed", outputUrl |-> "url",
                                processingLog |-> log[j]])]
    /\ Goto(j, "idle")
    /\ last' = Settled("completeJob", j, TRUE, 0, "success", 0)
    /\ log' = [log EXCEPT ![j] = <<>>]
    /\ UNCHANGED <<timers, failures, manual, initiated, snap, services>>

\* markJobAsFailed(jobId, msg) as the catch block awaits it: getJob, then either
\* scheduleRetry(jobId, retryCount + 1) or the permanent failure. It throws
\* 'Job not found' when getJob returns null; the catch block has no handler of
\* its own, so processDocument then rejects. Otherwise processDocument returns
\* {success: false, error: msg}.
markJobAsFailed(j, msg) ==
    LET job == getJob(j) IN
    IF ~Exists(j)
    THEN /\ UNCHANGED <<jobs, timers, failures, manual>>
         /\ last' = Settled("markJobAsFailed", j, FALSE, 0, "rejected", 1)
    ELSE /\ failures' = [failures EXCEPT ![j] = Bump(@)]
         /\ manual' = manual
         /\ IF ShouldRetry(job)
            THEN /\ jobs' = [jobs EXCEPT ![j] = RetryRow(job, job.retryCount + 1)]
                 /\ timers' = timers \cup {RetryTimer(j, job.retryCount + 1)}
                 /\ last' = Settled("markJobAsFailed", j, TRUE,
                                    RetryDelay(job.retryCount + 1), msg, 1)
            ELSE /\ jobs' = [jobs EXCEPT ![j] = FailedRow(job, msg)]
                 /\ timers' = timers
                 /\ last' = Settled("markJobAsFailed", j, TRUE, 0, msg, 1)

catchErrorRethrows(j) ==
    /\ pc[j] = "catch"
    /\ Goto(j, "idle")
    /\ last' = Settled("catchError", j, FALSE, 0, "rejected", 0)
    /\ log' = [log EXCEPT ![j] = <<>>]
    /\ UNCHANGED <<jobs, timers, failures, manual, initiated, snap, services>>

\* The catch block of processDocument: markJobAsFailed, then the failure result.
\* processingLogs, local to the call, goes nowhere.
catchError(j) ==
    /\ pc[j] = "catch"
    /\ markJobAsFailed(j, exc[j])
    /\ Goto(j, "idle")
    /\ log' = [log EXCEPT ![j] = <<>>]
    /\ UNCHANGED <<initiated, snap, services>>

----------------------------------------------------------------------------
(* ConversionService.initiateConversion *)

\* The ConversionResult of an initiation that went through.
Initiated(j, d) == [success |-> TRUE, jobId |-> j, documentId |-> d]

initiateConversionAwaits(d) ==
    /\ d \in DOMAIN documents
    /\ \E j \in JobIds :
          /\ ~Exists(j)
          /\ \A i \in JobIds : i < j => Exists(i)
          /\ jobs' = [jobs EXCEPT ![j] =
                         updateJob(NewJob(d), [status |-> "processing"])]
          /\ pc' = [pc EXCEPT ![j] = "retrieve"]
          /\ arg' = [arg EXCEPT ![j] = d]
          /\ initiated' = [initiated EXCEPT ![j] = Initiated(j, d)]
          /\ last' = Settled("initiateConversion", j, TRUE, 0, "success", 0)
    /\ UNCHANGED <<exc, timers, failures, manual, log, snap, services>>

\* initiateConversion(documentId): the document is looked up, the job created,
\* processDocumentAsync called and not awaited, and the result returned: the
\* call's first await (the update to processing) has not returned by then, so
\* all of processDocument comes after. A document that is not there is the
\* error of a result whose success is false.
initiateConversion(d) ==
    /\ IF d \in DOMAIN documents
       THEN \E j \in JobIds :
               /\ ~Exists(j)
               /\ \A i \in JobIds : i < j => Exists(i)
               /\ jobs' = [jobs EXCEPT ![j] = NewJob(d)]
               /\ initiated' = [initiated EXCEPT ![j] = Initiated(j, d)]
               /\ last' = Settled("initiateConversion", j, TRUE, 0, "success", 0)
       ELSE /\ jobs' = jobs
            /\ initiated' = initiated
            /\ last' = Settled("initiateConversion", 0, FALSE, 0,
                               DocumentNotFound(d), 0)
    /\ UNCHANGED <<pc, arg, exc, timers, failures, manual, log, snap, services>>

----------------------------------------------------------------------------
(* app/api/conversions/jobs/[jobId]: the cancel and retry requests, for a job
   that exists and belongs to the caller *)

\* DELETE: the status check that lets the request through.
DeleteAllowed(row) == row.status \in {"completed", "failed"}

\* DELETE: the row after its updateJob call.
CancelledRow(row) ==
    updateJob(row, [status |-> "failed", errorMessage |-> "Job cancelled by user"])

DELETE(j) ==
    /\ Exists(j)
    /\ IF DeleteAllowed(jobs[j])
       THEN /\ jobs' = [jobs EXCEPT ![j] = CancelledRow(@)]
            /\ last' = Did("DELETE", j, TRUE, 0)
       ELSE /\ jobs' = jobs
            /\ last' = Did("DELETE", j, FALSE, 0)
    /\ UNCHANGED <<pc, arg, exc, timers, failures, manual>>
    /\ UNCHANGED <<log, initiated, snap, services>>

RetryAllowedNoCeiling(row) == row.status = "failed"

\* POST: the two checks that let the request through.
RetryAllowed(row) == row.status = "failed" /\ ~(row.retryCount >= RETRY_LIMIT)

POST(j) ==
    /\ Exists(j)
    /\ IF RetryAllowed(jobs[j])
       THEN /\ jobs' = [jobs EXCEPT ![j] = RetryRow(@, @.retryCount + 1)]
            /\ timers' = timers \cup {RetryTimer(j, jobs[j].retryCount + 1)}
            /\ manual' = [manual EXCEPT ![j] = Bump(@)]
            /\ last' = Did("POST", j, TRUE, RetryDelay(jobs[j].retryCount + 1))
       ELSE /\ jobs' = jobs
            /\ timers' = timers
            /\ manual' = manual
            /\ last' = Did("POST", j, FALSE, 0)
    /\ UNCHANGED <<pc, arg, exc, failures>>
    /\ UNCHANGED <<log, initiated, snap, services>>

\* POST, up to its first await: const job = await jobQueueService.getJob(jobId).
\* The handler holds what it has read (of the row, the two fields it goes on
\* to use) while its ownership query runs.
POSTgetJob(j) ==
    /\ snap.job = 0
    /\ Exists(j)
    /\ snap' = [job |-> j, status |-> jobs[j].status,
                retryCount |-> jobs[j].retryCount]
    /\ last' = Did("POST.getJob", j, TRUE, 0)
    /\ UNCHANGED <<jobs, pc, arg, exc, timers, failures, manual>>
    /\ UNCHANGED <<log, initiated, services>>

\* POST, the rest: the two checks on the row that was read, then
\* scheduleRetry(jobId, job.retryCount + 1), whose update writes that count to
\* whatever the row is by now.
POSTscheduleRetry ==
    LET j == snap.job
        job == snap IN
    /\ j # 0
    /\ IF RetryAllowed(job)
       THEN /\ jobs' = [jobs EXCEPT ![j] = RetryRow(@, job.retryCount + 1)]
            /\ timers' = timers \cup {RetryTimer(j, job.retryCount + 1)}
            /\ manual' = [manual EXCEPT ![j] = Bump(@)]
            /\ last' = Did("POST", j, TRUE, RetryDelay(job.retryCount + 1))
       ELSE /\ jobs' = jobs
            /\ timers' = timers
            /\ manual' = manual
            /\ last' = Did("POST", j, FALSE, 0)
    /\ snap' = NoSnap
    /\ UNCHANGED <<pc, arg, exc, failures>>
    /\ UNCHANGED <<log, initiated, services>>

----------------------------------------------------------------------------
\* No job yet, no call in flight.
JobsIdle ==
    /\ jobs = [j \in JobIds |-> NoJob]
    /\ pc = [j \in CallIds |-> "idle"]
    /\ arg = [j \in CallIds |-> ""]
    /\ exc = [j \in CallIds |-> ""]
    /\ timers = {}
    /\ failures = [j \in CallIds |-> 0]
    /\ manual = [j \in CallIds |-> 0]
    /\ last = Did("init", 0, TRUE, 0)
    /\ log = [j \in CallIds |-> <<>>]
    /\ initiated = [j \in JobIds |-> NoResult]
    /\ snap = NoSnap

\* No service call under examination.
ServicesIdle ==
    /\ taxonomyMappings = {}
    /\ calls = <<>>
    /\ given = <<>>
    /\ result = <<>>

Init == JobsIdle /\ ServicesIdle

Next ==
    \/ \E d \in DocumentIds : createJob(d)
    \/ \E d \in DocumentIds : initiateConversion(d)
    \/ \E t \in timers : processRetry(t)
    \/ \E j \in CallIds, d \in DocumentIds : processDocument(j, d)
    \/ \E j \in JobIds : retrieveDocument(j)
    \/ \E j \in JobIds : progressCheckpoint(j)
    \/ \E j \in JobIds : parseFinancialData(j)
    \/ \E j \in JobIds : mapToTaxonomy(j)
    \/ \E j \in JobIds : generateXBRL(j)
    \/ \E j \in JobIds : saveConversionResults(j)
    \/ \E j \in JobIds : completeJob(j)
    \/ \E j \in CallIds : catchError(j)
    \/ \E j \in JobIds : DELETE(j)
    \/ \E j \in JobIds : POST(j)

Spec == Init /\ [][Next]_vars

----------------------------------------------------------------------------
(* Fairness: an awaited call of a processDocument in flight returns, and a
   timer handed to setTimeout fires. Nothing obliges a caller to create a job,
   to call processDocument or to send a request. *)

AllTimers == {RetryTimer(j, n) : j \in JobIds, n \in 1..MAX_RETRIES}

InFlight(j) ==
    \/ retrieveDocument(j) \/ progressCheckpoint(j) \/ parseFinancialData(j)
    \/ mapToTaxonomy(j) \/ generateXBRL(j) \/ saveConversionResults(j)
    \/ completeJob(j)

LiveSpec ==
    /\ Init /\ [][Next]_vars
    /\ \A j \in JobIds : WF_vars(InFlight(j))
    /\ \A j \in CallIds : WF_vars(catchError(j))
    /\ \A t \in AllTimers : WF_vars(processRetry(t))

\* The job requests as the server runs them: a retry request may be between
\* its read and its write while other requests and the processing go on.
RaceNext ==
    \/ \E d \in DocumentIds : initiateConversion(d)
    \/ \E t \in timers : processRetry(t)
    \/ \E j \in JobIds :
          \/ processDocument(j, jobs[j].documentId)
          \/ InFlight(j)
          \/ catchError(j)
          \/ DELETE(j)
          \/ POST(j)
          \/ POSTgetJob(j)
    \/ POSTscheduleRetry

RaceSpec == Init /\ [][RaceNext]_vars

----------------------------------------------------------------------------
(* TaxonomyMappingService.createMapping: the rows of taxonomy_mappings whose
   source_field is the one label every call here names. The tag of every call
   is in the taxonomy, so no call throws. *)

MaxCallers == 3
Callers == 1..MaxCallers
Confidences == {60, 80, 95}

\* The greatest of a non-empty set of numbers.
Max(S) == CHOOSE x \in S : \A y \in S : y <= x

\* The table before the calls: no row for the label, or one.
PriorTables == {{}} \cup {{[id |-> 1, confidence |-> k]} : k \in Confidences}

\* A call that has not read the table yet.
Calling(k) == [at |-> "select", confidence |-> k, existingMapping |-> {}]

MappingInit ==
    /\ JobsIdle
    /\ taxonomyMappings \in PriorTables
    /\ calls \in [Callers -> {Calling(k) : k \in Confidences}]
    /\ given = taxonomyMappings
    /\ result = <<>>

\* const existingMapping = await db.select().from(taxonomyMappings)
\*   .where(eq(sourceField, sourceField)).limit(1): no ORDER BY, any one row.
selectExistingMapping(c) ==
    /\ calls[c].at = "select"
    /\ \E rows \in IF taxonomyMappings = {} THEN {{}}
                    ELSE {{row} : row \in taxonomyMappings} :
          calls' = [calls EXCEPT ![c].at = "write",
                                 ![c].existingMapping = rows]
    /\ UNCHANGED <<queue, taxonomyMappings, given, result>>

\* The branch on what was read: the update by id of the row read, made only
\* when its confidence as read is lower than the call's; or the insert.
writeMapping(c) ==
    LET call == calls[c] IN
    /\ call.at = "write"
    /\ IF call.existingMapping # {}
       THEN LET existing == CHOOSE row \in call.existingMapping : TRUE IN
            IF existing.confidence < call.confidence
            THEN taxonomyMappings' =
                    {IF row.id = existing.id
                     THEN [row EXCEPT !.confidence = call.confidence]
                     ELSE row : row \in taxonomyMappings}
            ELSE taxonomyMappings' = taxonomyMappings
       ELSE taxonomyMappings' = taxonomyMappings \cup
               {[id |-> Cardinality(taxonomyMappings) + 1,
                 confidence |-> call.confidence]}
    /\ calls' = [calls EXCEPT ![c].at = "done"]
    /\ UNCHANGED <<queue, given, result>>

MappingNext ==
    \E c \in Callers : selectExistingMapping(c) \/ writeMapping(c)

MappingSpec == MappingInit /\ [][MappingNext]_vars

----------------------------------------------------------------------------
(* XBRLGenerator.generateXBRL. A Date is its UTC day [year, month, day]; the
   document is what was put under the root: the context elements, the unit
   elements, the entity-information elements and the facts, each in order. *)

MaxStatements == 2

\* Two digits of n.
Pad2(n) == IF n < 10 THEN "0" \o ToString(n) ELSE ToString(n)

\* date.toISOString().split('T')[0]
formatDate(date) ==
    ToString(date.year) \o "-" \o Pad2(date.month) \o "-" \o Pad2(date.day)

\* date.toISOString().split('T')[0].replace(/-/g, '')
DateStr(date) == ToString(date.year) \o Pad2(date.month) \o Pad2(date.day)

\* fiscalQuarter 0 is a statement without one: `fiscalQuarter || ''`.
generateContextId(statement) ==
    "AsOf_" \o DateStr(statement.periodEndDate) \o "_" \o statement.type
        \o "_" \o ToString(statement.fiscalYear) \o "Q"
        \o (IF statement.fiscalQuarter = 0 THEN ""
            ELSE ToString(statement.fiscalQuarter))

generateDocumentContext(options) == "Document_" \o DateStr(options.documentDate)

\* The xbrli:context element of a statement: its id and the kind of its period.
createContextForStatement(statement) ==
    [id |-> generateContextId(statement),
     period |-> IF statement.type = "balance_sheet" THEN "instant"
                ELSE "duration",
     endDate |-> formatDate(statement.periodEndDate)]

\* The two xbrli:unit elements, in order.
addUnitDefinitions(currency) ==
    <<[id |-> "USD", measure |-> "iso4217:" \o currency],
      [id |-> "pure", measure |-> "xbrli:pure"]>>

\* The dei elements, in order; the first only for a company name.
addEntityInformation(options) ==
    (IF options.companyName # ""
     THEN <<[name |-> "dei:EntityRegistrantName",
             contextRef |-> generateDocumentContext(options)]>>
     ELSE <<>>)
    \o <<[name |-> "dei:DocumentPeriodEndDate",
          contextRef |-> generateDocumentContext(options)],
         [name |-> "dei:DocumentFiscalYearFocus",
          contextRef |-> generateDocumentContext(options)]>>

\* The element name of an item, "" for null: the tag of its match, or us-gaap:
\* and the letters and digits of its concept.
getXBRLTagName(item) ==
    IF item.xbrlTag # "" THEN item.xbrlTag
    ELSE IF item.concept # <<>>
         THEN "us-gaap:" \o Text(SelectSeq(item.concept,
                  LAMBDA ch : \/ ch \in Digits
                              \/ \E k \in 1..Len(LowerCase) :
                                    ch \in {LowerCase[k], UpperCase[k]}))
         ELSE ""

\* The fact of an item that has a tag. valueType is typeof item.value, "null"
\* for null or undefined.
createFinancialFact(item, contextId, currency) ==
    IF item.isNil \/ item.valueType = "null"
    THEN [name |-> getXBRLTagName(item), contextRef |-> contextId,
          unitRef |-> "USD", nil |-> TRUE]
    ELSE [name |-> getXBRLTagName(item), contextRef |-> contextId,
          unitRef |-> IF item.valueType = "number" THEN currency ELSE "pure",
          nil |-> FALSE]

createFinancialFacts(items, contextId, currency) ==
    LET tagged == SelectSeq(items, LAMBDA item : getXBRLTagName(item) # "")
    IN  [i \in 1..Len(tagged) |->
            createFinancialFact(tagged[i], contextId, currency)]

\* The facts of statements 1..n, in order.
FactsUpTo(statements, currency) ==
    LET upTo[n \in 0..Len(statements)] ==
            IF n = 0 THEN <<>>
            ELSE upTo[n - 1] \o
                 createFinancialFacts(statements[n].items,
                                      generateContextId(statements[n]), currency)
    IN  upTo[Len(statements)]

\* The result of the catch block: no document, one issue.
GenerationFailed ==
    [empty |-> TRUE, contexts |-> <<>>, units |-> <<>>, entity |-> <<>>,
     facts |-> <<>>, totalFacts |-> 0, validationIssues |-> 1]

\* generateXBRL(statements, options). importNode is what the XML library does
\* with root.importNode(node): it puts the node under the root, or the call
\* throws, which for the first statement ends the generation in the catch
\* block.
GeneratedXBRL(statements, options, importNode) ==
    IF statements # <<>> /\ importNode = "throws"
    THEN GenerationFailed
    ELSE [empty |-> FALSE,
          contexts |-> [n \in 1..Len(statements) |->
                           createContextForStatement(statements[n])],
          units |-> addUnitDefinitions(options.currency),
          entity |-> addEntityInformation(options),
          facts |-> FactsUpTo(statements, options.currency),
          totalFacts |-> Len(FactsUpTo(statements, options.currency)),
          validationIssues |-> 0]

\* The inputs drawn.
PeriodEndDates == {[year |-> 2023, month |-> 12, day |-> 31],
                   [year |-> 2024, month |-> 3, day |-> 31]}
StatementTypes == {"balance_sheet", "income_statement"}
FiscalQuarters == {0, 1}
Cash == <<"C", "a", "s", "h", " ", "&", " ", "e", "q", ".">>
NumberItem == [concept |-> Cash, xbrlTag |-> "", isNil |-> FALSE,
               valueType |-> "number"]
NilItem == [concept |-> Cash, xbrlTag |-> "us-gaap:Cash", isNil |-> TRUE,
            valueType |-> "null"]
StringItem == [concept |-> Cash, xbrlTag |-> "dei:Note", isNil |-> FALSE,
               valueType |-> "string"]
NamelessItem == [concept |-> <<>>, xbrlTag |-> "", isNil |-> FALSE,
                 valueType |-> "number"]
ItemLists == {<<>>, <<NumberItem>>, <<NilItem, NamelessItem>>,
              <<StringItem, NumberItem>>}
Statements ==
    [periodEndDate : PeriodEndDates, type : StatementTypes, fiscalYear : {2023},
     fiscalQuarter : FiscalQuarters, items : ItemLists]
GenerationOptions ==
    [currency : {"USD", "EUR"}, companyName : {"", "Acme"},
     documentDate : {[year |-> 2024, month |-> 3, day |-> 31]}]

GeneratorInit ==
    /\ JobsIdle
    /\ taxonomyMappings = {}
    /\ calls = <<>>
    /\ \E n \in 0..MaxStatements :
          given \in [statements : [1..n -> Statements],
                     options : GenerationOptions,
                     importNode : {"imports", "throws"}]
    /\ result = <<>>

\* const xbrlResult = await xbrlGenerator.generateXBRL(statements, options)
callGenerateXBRL ==
    /\ result = <<>>
    /\ "statements" \in DOMAIN given
    /\ result' = GeneratedXBRL(given.statements, given.options, given.importNode)
    /\ UNCHANGED <<queue, taxonomyMappings, calls, given>>

GeneratorSpec == GeneratorInit /\ [][callGenerateXBRL]_vars

----------------------------------------------------------------------------
(* TaxonomyMappingService.mapFinancialItem. null is NoMatch; the stored mapping
   of a label is the active taxonomy_mappings row findExactMapping reads for
   it, NoMatch when there is none. Labels are sequences of characters. *)

NoMatch == [xbrlTag |-> "", confidence |-> 0, mappingMethod |-> "none"]

\* taxonomies: the rows the lookups go through, in the order the store
\* returns them.
taxonomies == <<
    [concept |-> <<"C", "a", "s", "h">>, xbrlTag |-> "us-gaap:Cash",
     sector |-> "all", reportType |-> "balance_sheet",
     synonyms |-> {<<"c", "a", "s", "h", " ", "o", "n", " ", "h", "a", "n", "d">>}],
    [concept |-> <<"T", "o", "t", "a", "l", " ", "A", "s", "s", "e", "t", "s">>,
     xbrlTag |-> "us-gaap:Assets",
     sector |-> "banking", reportType |-> "balance_sheet",
     synonyms |-> {}]
>>

\* findExactMapping(concept): the stored mapping as stored; else the first
\* taxonomy row whose concept or tag is the label, at confidence 100; else null.
findExactMapping(concept, stored) ==
    LET hits == {i \in DOMAIN taxonomies :
                    \/ taxonomies[i].concept = concept
                    \/ taxonomies[i].xbrlTag = Text(concept)}
    IN  IF stored # NoMatch THEN stored
        ELSE IF hits # {}
             THEN [xbrlTag |-> taxonomies[CHOOSE i \in hits :
                                             \A k \in hits : i <= k].xbrlTag,
                   confidence |-> 100, mappingMethod |-> "exact_match"]
             ELSE NoMatch

\* s.split(/\s+/), each word as <<before, after>>, the places of the breaks
\* around it; for a string whose white space is single blanks.
Words(s) ==
    LET breaks == {0, Len(s) + 1} \cup {i \in 1..Len(s) : s[i] = " "}
    IN  {w \in breaks \X breaks :
            w[1] < w[2] /\ ~\E b \in breaks : w[1] < b /\ b < w[2]}

\* The word of s between the breaks w.
Word(s, w) == SubSeq(s, w[1] + 1, w[2] - 1)

\* calculateFuzzyScore(searchTerm, candidateTerm, synonyms). The last two
\* lines are Math.min(100, Math.round(Math.max(0, overlapScore - 20 *
\* lengthDiff / longer))) in whole numbers.
calculateFuzzyScore(searchTerm, candidateTerm, synonyms) ==
    LET search == toLowerCase(searchTerm)
        candidate == toLowerCase(candidateTerm)
        pairs == Words(search) \X Words(candidate)
        same == {q \in pairs : Word(search, q[1]) = Word(candidate, q[2])}
        partial == {q \in pairs \ same :
                      \/ Includes(Word(candidate, q[2]), Word(search, q[1]))
                      \/ Includes(Word(search, q[1]), Word(candidate, q[2]))}
        overlapScore == 20 * Cardinality(same) + 10 * Cardinality(partial)
        lengthDiff == IF Len(search) > Len(candidate)
                      THEN Len(search) - Len(candidate)
                      ELSE Len(candidate) - Len(search)
        longer == IF Len(search) > Len(candidate) THEN Len(search)
                  ELSE Len(candidate)
        rounded == IF overlapScore * longer < 20 * lengthDiff THEN 0
                   ELSE (2 * overlapScore * longer - 40 * lengthDiff + longer)
                            \div (2 * longer)
    IN  IF search = candidate THEN 100
        ELSE IF \E synonym \in synonyms : search = toLowerCase(synonym) THEN 95
        ELSE IF rounded > 100 THEN 100 ELSE rounded

\* findFuzzyMatch(concept, sectorContext): the candidates are the rows whose
\* concept contains the label whatever the case, or whose sector is the
\* context; the first of the best-scored of those at 80 or more, else null.
findFuzzyMatch(concept, sectorContext) ==
    LET candidates ==
            {i \in DOMAIN taxonomies :
                \/ Includes(toLowerCase(taxonomies[i].concept), toLowerCase(concept))
                \/ /\ sectorContext \notin {"", "all"}
                   /\ taxonomies[i].sector = sectorContext}
        score(i) == calculateFuzzyScore(concept, taxonomies[i].concept,
                                        taxonomies[i].synonyms)
        scored == {i \in candidates : score(i) >= 80}
        bestMatch == CHOOSE i \in scored :
                        \A k \in scored :
                           score(k) < score(i) \/ (score(k) = score(i) /\ i <= k)
    IN  IF scored = {} THEN NoMatch
        ELSE [xbrlTag |-> taxonomies[bestMatch].xbrlTag,
              confidence |-> score(bestMatch), mappingMethod |-> "fuzzy_match"]

\* simulateAIMapping: the pattern table, in entry order.
mappingPatterns == <<
    [pattern |-> <<"c", "a", "s", "h">>,
     tag |-> "us-gaap:CashAndCashEquivalentsCarryingAmount", confidence |-> 95],
    [pattern |-> <<"a", "c", "c", "o", "u", "n", "t", "s", " ", "r", "e", "c", "e", "i", "v", "a", "b", "l", "e">>,
     tag |-> "us-gaap:AccountsReceivableNetCurrent", confidence |-> 95],
    [pattern |-> <<"i", "n", "v", "e", "n", "t", "o", "r", "y">>,
     tag |-> "us-gaap:InventoryNet", confidence |-> 90],
    [pattern |-> <<"p", "r", "o", "p", "e", "r", "t", "y">>,
     tag |-> "us-gaap:PropertyPlantAndEquipmentNet", confidence |-> 85],
    [pattern |-> <<"r", "e", "v", "e", "n", "u", "e">>,
     tag |-> "us-gaap:Revenues", confidence |-> 95],
    [pattern |-> <<"s", "a", "l", "e", "s">>,
     tag |-> "us-gaap:Revenues", confidence |-> 90],
    [pattern |-> <<"n", "e", "t", " ", "i", "n", "c", "o", "m", "e">>,
     tag |-> "us-gaap:NetIncomeLoss", confidence |-> 95],
    [pattern |-> <<"t", "o", "t", "a", "l", " ", "a", "s", "s", "e", "t", "s">>,
     tag |-> "us-gaap:Assets", confidence |-> 98],
    [pattern |-> <<"t", "o", "t", "a", "l", " ", "l", "i", "a", "b", "i", "l", "i", "t", "i", "e", "s">>,
     tag |-> "us-gaap:Liabilities", confidence |-> 98],
    [pattern |-> <<"s", "h", "a", "r", "e", "h", "o", "l", "d", "e", "r", "s", " ", "e", "q", "u", "i", "t", "y">>,
     tag |-> "us-gaap:StockholdersEquity", confidence |-> 95]
>>

\* getAIMapping -> simulateAIMapping(request): the first pattern that the
\* lowered label contains or that contains it, its confidence adjusted;
\* largeValue says the value is a number beyond a million either way.
getAIMapping(sourceField, largeValue, sectorContext) ==
    LET lowered == toLowerCase(sourceField)
        hits == {i \in DOMAIN mappingPatterns :
                    \/ Includes(lowered, mappingPatterns[i].pattern)
                    \/ Includes(mappingPatterns[i].pattern, lowered)}
        mapping == mappingPatterns[CHOOSE i \in hits : \A k \in hits : i <= k]
        forSector == IF sectorContext = "banking" THEN mapping.confidence - 5
                     ELSE mapping.confidence
        adjustedConfidence == IF ~largeValue THEN forSector
                              ELSE IF forSector + 5 > 100 THEN 100
                              ELSE forSector + 5
    IN  IF hits = {} THEN NoMatch
        ELSE [xbrlTag |-> mapping.tag, confidence |-> adjustedConfidence,
              mappingMethod |-> "ai_assisted"]

\* selectBestMatch(matches): the first of the highest confidence among those
\* that are not null, null when there is none.
selectBestMatch(matches) ==
    LET validMatches == {i \in DOMAIN matches : matches[i] # NoMatch}
        best == CHOOSE i \in validMatches :
                   \A k \in validMatches :
                      \/ matches[k].confidence < matches[i].confidence
                      \/ matches[k].confidence = matches[i].confidence /\ i <= k
    IN  IF validMatches = {} THEN NoMatch ELSE matches[best]

\* TaxonomyMatch of a stage's result under the method the stage gives it.
As(match, mappingMethod) == [match EXCEPT !.mappingMethod = mappingMethod]

mapFinancialItemFallbackAt50(item, stored, sectorContext) ==
    LET exactMatch == findExactMapping(item.concept, stored)
        fuzzyMatch == findFuzzyMatch(item.concept, sectorContext)
        aiMatch == getAIMapping(item.concept, item.largeValue, sectorContext)
        bestMatch == selectBestMatch(<<exactMatch, fuzzyMatch, aiMatch>>)
    IN  IF exactMatch # NoMatch /\ exactMatch.confidence >= 95
        THEN As(exactMatch, "exact_match")
        ELSE IF fuzzyMatch # NoMatch /\ fuzzyMatch.confidence >= 80
        THEN As(fuzzyMatch, "fuzzy_match")
        ELSE IF aiMatch # NoMatch /\ aiMatch.confidence >= 70
        THEN As(aiMatch, "ai_assisted")
        ELSE IF bestMatch # NoMatch /\ bestMatch.confidence >= 50
        THEN bestMatch
        ELSE NoMatch

mapFinancialItem(item, stored, sectorContext) ==
    LET exactMatch == findExactMapping(item.concept, stored)
        fuzzyMatch == findFuzzyMatch(item.concept, sectorContext)
        aiMatch == getAIMapping(item.concept, item.largeValue, sectorContext)
        bestMatch == selectBestMatch(<<exactMatch, fuzzyMatch, aiMatch>>)
    IN  IF exactMatch # NoMatch /\ exactMatch.confidence >= 95
        THEN As(exactMatch, "exact_match")
        ELSE IF fuzzyMatch # NoMatch /\ fuzzyMatch.confidence >= 80
        THEN As(fuzzyMatch, "fuzzy_match")
        ELSE IF aiMatch # NoMatch /\ aiMatch.confidence >= 70
        THEN As(aiMatch, "ai_assisted")
        ELSE IF bestMatch # NoMatch /\ bestMatch.confidence >= 60
        THEN bestMatch
        ELSE NoMatch

\* The inputs drawn: labels, what is stored for the label, the sector.
Concepts ==
    {<<"C", "a", "s", "h">>,
     <<"c", "a", "s", "h">>,
     <<"N", "e", "t", " ", "C", "a", "s", "h">>,
     <<"A", "s", "s", "e", "t", "s">>,
     <<"t", "o", "t", "a", "l", " ", "a", "s", "s", "e", "t", "s">>,
     <<"G", "o", "o", "d", "w", "i", "l", "l">>}
StoredConfidences == {50, 60, 79, 80, 94, 95, 99, 100}
MappingMethods == {"exact_match", "fuzzy_match", "ai_assisted", "manual"}
StoredMappings ==
    {NoMatch} \cup [xbrlTag : {"us-gaap:Stored"}, confidence : StoredConfidences,
                    mappingMethod : MappingMethods]

MatchInit ==
    /\ JobsIdle
    /\ taxonomyMappings = {}
    /\ calls = <<>>
    /\ given \in [item : [concept : Concepts, largeValue : BOOLEAN],
                   stored : StoredMappings,
                   sectorContext : {"", "banking"}]
    /\ result = <<>>

\* const match = await this.mapFinancialItem(item, sectorContext, ...)
callMapFinancialItem ==
    /\ result = <<>>
    /\ result' = mapFinancialItem(given.item, given.stored, given.sectorContext)
    /\ UNCHANGED <<queue, taxonomyMappings, calls, given>>

MatchSpec == MatchInit /\ [][callMapFinancialItem]_vars

----------------------------------------------------------------------------
(* DefaultParserFactory.getParser, called on its own. *)

\* The inputs drawn: format ids, and MIME hints, <<>> for none given.
FormatIds ==
    {<<>>,
     <<"c", "s", "v">>,
     <<"C", "S", "V">>,
     <<"x", "l", "s", "x">>,
     <<".", "x", "l", "s">>,
     <<"t", "s", "v">>,
     <<"t", "x", "t">>,
     <<"p", "d", "f">>,
     <<"j", "s", "o", "n">>,
     <<"x", "b", "r", "l">>,
     <<"d", "a", "t", "a">>,
     <<"s", "h", "e", "e", "t">>,
     <<"m", "y", " ", "s", "p", "r", "e", "a", "d", "s", "h", "e", "e", "t">>,
     <<"e", "x", "c", "e", "l", "-", "f", "i", "l", "e">>,
     <<"d", "o", "c", "x">>,
     <<" ">>,
     <<"r", "e", "p", "o", "r", "t">>,
     <<"x", "m", "l">>}
MimeHints == {<<>>, <<"t", "e", "x", "t", "/", "c", "s", "v">>,
              <<"i", "m", "a", "g", "e", "/", "p", "n", "g">>}

ParserInit ==
    /\ JobsIdle
    /\ taxonomyMappings = {}
    /\ calls = <<>>
    /\ given \in [fileType : FormatIds, mimeType : MimeHints]
    /\ result = <<>>

\* const parser = parserFactory.getParser(fileType, mimeType)
callGetParser ==
    /\ result = <<>>
    /\ result' = [parser |-> getParser(given.fileType, given.mimeType)]
    /\ UNCHANGED <<queue, taxonomyMappings, calls, given>>

ParserSpec == ParserInit /\ [][callGetParser]_vars

----------------------------------------------------------------------------
(* BaseParser.sanitizeValue and JsonParser.parseFinancialItemFromJsonItem. A
   value is a record of its typeof: null (also undefined), a number n, a
   string s of characters, or a boolean b; NaN is the number that is none. *)

NullValue == [type |-> "null"]
NaN == [type |-> "NaN"]

\* parseFloat(s), for numerals without fraction or exponent: the sign and the
\* leading digits, NaN when there is no digit there.
parseFloat(s) ==
    LET signed == s # <<>> /\ s[1] \in {"-", "+"}
        body == IF signed THEN Tail(s) ELSE s
        digits == {k \in 0..Len(body) : \A i \in 1..k : body[i] \in Digits}
        k == CHOOSE n \in digits : \A m \in digits : m <= n
        digit(ch) == CHOOSE d \in 0..9 : ToString(d) = ch
        upTo[i \in 0..k] == IF i = 0 THEN 0 ELSE 10 * upTo[i - 1] + digit(body[i])
    IN  IF k = 0 THEN NaN
        ELSE [type |-> "number",
              n |-> IF signed /\ s[1] = "-" THEN 0 - upTo[k] ELSE upTo[k]]

\* sanitizeValue(value). cleanValue is value.replace(/[$,()%\s]/g, '').
sanitizeValue(value) ==
    IF value = NullValue \/ value = [type |-> "string", s |-> <<>>]
    THEN NullValue
    ELSE IF value.type # "string" THEN value
    ELSE LET cleanValue == SelectSeq(value.s,
                 LAMBDA ch : ch \notin {"$", ",", "(", ")", "%", " "})
             inner == SubSeq(cleanValue, 2, Len(cleanValue) - 1)
         IN  IF /\ cleanValue # <<>>
                /\ cleanValue[1] = "("
                /\ cleanValue[Len(cleanValue)] = ")"
             THEN IF parseFloat(inner) = NaN THEN value
                  ELSE [type |-> "number", n |-> 0 - parseFloat(inner).n]
             ELSE IF parseFloat(cleanValue) # NaN THEN parseFloat(cleanValue)
             ELSE IF toLowerCase(cleanValue) = <<"t", "r", "u", "e">>
             THEN [type |-> "boolean", b |-> TRUE]
             ELSE IF toLowerCase(cleanValue) = <<"f", "a", "l", "s", "e">>
             THEN [type |-> "boolean", b |-> FALSE]
             ELSE [type |-> "string", s |-> cleanValue]

\* a || b of JavaScript.
OrElse(a, b) ==
    IF \/ a \in {NullValue, NaN}
       \/ a = [type |-> "number", n |-> 0]
       \/ a = [type |-> "string", s |-> <<>>]
       \/ a = [type |-> "boolean", b |-> FALSE]
    THEN b ELSE a

\* No item: the null a parser's item builder returns for what it drops.
NoItem == [concept |-> <<>>, value |-> NullValue, isNil |-> FALSE,
           dropped |-> TRUE]

\* parseFinancialItemFromJsonItem(itemData) for an object with the keys
\* concept, value, amount and isNil.
parseFinancialItemFromJsonItem(itemData) ==
    LET value == OrElse(OrElse(itemData.value, itemData.amount), NullValue) IN
    IF itemData.concept = <<>> \/ value = NullValue THEN NoItem
    ELSE [concept |-> Trim(itemData.concept), value |-> sanitizeValue(value),
          isNil |-> itemData.isNil, dropped |-> FALSE]

\* The inputs drawn: raw cell texts, and the values of a JSON item.
RawValues ==
    {[type |-> "string", s |-> <<"(", "5", "0", "0", ")">>],
     [type |-> "string", s |-> <<"(", "$", "1", ",", "2", "0", "0", ")">>],
     [type |-> "string", s |-> <<"5", "0", "0">>],
     [type |-> "string", s |-> <<"$", "1", ",", "2", "0", "0">>],
     [type |-> "string", s |-> <<"(", " ", "7", "5", " ", ")">>],
     [type |-> "string", s |-> <<"-", "5", "0", "0">>],
     [type |-> "string", s |-> <<"a", "b", "c">>],
     [type |-> "string", s |-> <<"t", "r", "u", "e">>],
     [type |-> "string", s |-> <<"(", "a", "b", "c", ")">>],
     [type |-> "string", s |-> <<"$">>],
     [type |-> "string", s |-> <<" ", "4", "2", "%">>]}
JsonValues ==
    RawValues \cup {NullValue, [type |-> "string", s |-> <<>>],
                    [type |-> "number", n |-> 0], [type |-> "number", n |-> 100],
                    [type |-> "boolean", b |-> FALSE]}

ItemInit ==
    /\ JobsIdle
    /\ taxonomyMappings = {}
    /\ calls = <<>>
    /\ given \in [concept : {<<>>, Cash}, value : JsonValues,
                   amount : {NullValue, [type |-> "number", n |-> 7]},
                   isNil : BOOLEAN]
    /\ result = <<>>

\* const sanitizedValue = this.sanitizeValue(value), on a cell of a table
callSanitizeValue ==
    /\ result = <<>>
    /\ result' = [sanitized |-> sanitizeValue(given.value)]
    /\ UNCHANGED <<queue, taxonomyMappings, calls, given>>

\* const item = await this.parseFinancialItemFromJsonItem(itemData[i], ...)
callParseItem ==
    /\ result = <<>>
    /\ result' = [item |-> parseFinancialItemFromJsonItem(given)]
    /\ UNCHANGED <<queue, taxonomyMappings, calls, given>>

ItemSpec == ItemInit /\ [][callSanitizeValue \/ callParseItem]_vars

----------------------------------------------------------------------------
(* CsvParser. A CSV text is the sequence of its lines and a line the sequence
   of its cells, each a string of characters; a parsed row is the sequence of
   its (key, value) entries in the order Object.keys and Object.entries list
   them: a key that is a whole number first, the others in column order. *)

\* Papa.parse(csvText, {header: true, skipEmptyLines: true, transformHeader:
\* trim, transform: trim}): the first line that is not empty names the fields,
\* every later one is a row keyed by them, and a row with another number of
\* cells than the header is reported in errors.
PapaParse(csvText) ==
    LET lines == SelectSeq(csvText, LAMBDA line : line # <<>>)
        fields == IF lines = <<>> THEN <<>>
                  ELSE [i \in 1..Len(lines[1]) |-> Trim(lines[1][i])]
        Min(a, b) == IF a < b THEN a ELSE b
        isIndex(key) == /\ key # <<>>
                        /\ \A i \in 1..Len(key) : key[i] \in Digits
                        /\ Len(key) = 1 \/ key[1] # "0"
        cells(line) == [i \in 1..Min(Len(line), Len(fields)) |->
                           [key |-> fields[i], value |-> Trim(line[i])]]
        row(line) == SelectSeq(cells(line), LAMBDA c : isIndex(c.key))
                        \o SelectSeq(cells(line), LAMBDA c : ~isIndex(c.key))
    IN  [data |-> [k \in 1..(Len(lines) - 1) |-> row(lines[k + 1])],
         errors |-> [k \in 1..Cardinality({i \in 2..Len(lines) :
                                Len(lines[i]) # Len(fields)}) |-> "error"]]

\* detectReportType(data), called with at least one row.
detectReportType(data) ==
    LET headers == [i \in 1..Len(data[1]) |-> toLowerCase(data[1][i].key)]
        join[i \in 0..Len(headers)] ==
            IF i = 0 THEN <<>>
            ELSE IF i = 1 THEN headers[1]
            ELSE join[i - 1] \o <<" ">> \o headers[i]
        allHeaders == join[Len(headers)]
        balanceSheetKeywords ==
            {<<"a", "s", "s", "e", "t", "s">>,
             <<"l", "i", "a", "b", "i", "l", "i", "t", "i", "e", "s">>,
             <<"e", "q", "u", "i", "t", "y">>,
             <<"c", "a", "s", "h">>,
             <<"r", "e", "c", "e", "i", "v", "a", "b", "l", "e", "s">>,
             <<"p", "a", "y", "a", "b", "l", "e", "s">>,
             <<"i", "n", "v", "e", "n", "t", "o", "r", "y">>,
             <<"p", "r", "o", "p", "e", "r", "t", "y">>,
             <<"p", "l", "a", "n", "t">>,
             <<"e", "q", "u", "i", "p", "m", "e", "n", "t">>}
        incomeKeywords ==
            {<<"r", "e", "v", "e", "n", "u", "e">>,
             <<"s", "a", "l", "e", "s">>,
             <<"i", "n", "c", "o", "m", "e">>,
             <<"e", "x", "p", "e", "n", "s", "e", "s">>,
             <<"c", "o", "s", "t">>,
             <<"g", "r", "o", "s", "s", " ", "p", "r", "o", "f", "i", "t">>,
             <<"o", "p", "e", "r", "a", "t", "i", "n", "g", " ", "i", "n", "c", "o", "m", "e">>,
             <<"n", "e", "t", " ", "i", "n", "c", "o", "m", "e">>,
             <<"e", "a", "r", "n", "i", "n", "g", "s">>}
        cashFlowKeywords ==
            {<<"c", "a", "s", "h", " ", "f", "l", "o", "w">>,
             <<"o", "p", "e", "r", "a", "t", "i", "n", "g", " ", "a", "c", "t", "i", "v", "i", "t", "i", "e", "s">>,
             <<"i", "n", "v", "e", "s", "t", "i", "n", "g", " ", "a", "c", "t", "i", "v", "i", "t", "i", "e", "s">>,
             <<"f", "i", "n", "a", "n", "c", "i", "n", "g", " ", "a", "c", "t", "i", "v", "i", "t", "i", "e", "s">>,
             <<"c", "a", "s", "h", " ", "f", "r", "o", "m">>,
             <<"c", "a", "s", "h", " ", "u", "s", "e", "d">>}
        score(keywords) == Cardinality({kw \in keywords : Includes(allHeaders, kw)})
        balanceSheetScore == score(balanceSheetKeywords)
        incomeScore == score(incomeKeywords)
        cashFlowScore == score(cashFlowKeywords)
    IN  IF balanceSheetScore >= incomeScore /\ balanceSheetScore >= cashFlowScore
        THEN "balance_sheet"
        ELSE IF incomeScore >= cashFlowScore THEN "income_statement"
        ELSE IF cashFlowScore > 0 THEN "cash_flow"
        ELSE "unknown"

\* createFinancialItem(concept, value, row): NoItem for the null it returns.
createFinancialItem(concept, value) ==
    LET sanitizedValue == sanitizeValue([type |-> "string", s |-> value]) IN
    IF sanitizedValue = NullValue THEN NoItem
    ELSE [concept |-> Trim(concept), value |-> sanitizedValue]

\* parseBalanceSheet(data): every entry of every row whose value is not ''
\* becomes an item. items[i] is the list after the first i rows.
parseBalanceSheet(data) ==
    LET ofRow(row) ==
            LET upTo[k \in 0..Len(row)] ==
                    IF k = 0 THEN <<>>
                    ELSE IF /\ row[k].value # <<>>
                            /\ createFinancialItem(row[k].key, row[k].value) # NoItem
                    THEN Append(upTo[k - 1],
                                createFinancialItem(row[k].key, row[k].value))
                    ELSE upTo[k - 1]
            IN  upTo[Len(row)]
        items[i \in 0..Len(data)] ==
            IF i = 0 THEN <<>> ELSE items[i - 1] \o ofRow(data[i])
    IN  [type |-> "balance_sheet", items |-> items[Len(data)]]

\* The catch block of parse: no statement, and a critical PARSE_FAILED entry
\* after the errors collected so far.
ParseFailedSilently(errors) ==
    [financialStatements |-> <<>>, reportType |-> "unknown", errors |-> errors]

ParseFailed(errors) ==
    [financialStatements |-> <<>>, reportType |-> "unknown",
     errors |-> Append(errors, "critical")]

\* CsvParser.parse(buffer, fileName), its report reduced to the statements,
\* the report type and the severities of metadata.errors. The statement
\* builders of convertToFinancialData run the loop of parseBalanceSheet and
\* differ in the type they put on the statement.
parseCsv(csvText) ==
    LET parseResult == PapaParse(csvText)
        data == parseResult.data
        reportType == detectReportType(data)
    IN  IF data = <<>> THEN ParseFailed(parseResult.errors)
        ELSE [financialStatements |->
                  <<[parseBalanceSheet(data) EXCEPT !.type = reportType]>>,
              reportType |-> reportType,
              errors |-> parseResult.errors]

\* The files drawn: up to MaxLines lines, each one of CsvLines.
MaxLines == 3
CashAndCashEquivalents == <<"C", "a", "s", "h", " ", "a", "n", "d", " ", "C", "a", "s", "h", " ", "E", "q", "u", "i", "v", "a", "l", "e", "n", "t", "s">>
TotalAssets == <<"T", "o", "t", "a", "l", " ", "A", "s", "s", "e", "t", "s">>
CsvLines ==
    {<<CashAndCashEquivalents, <<"1", "0", "0", "0", "0", "0", "0">>>>,
     <<TotalAssets, <<"5", "0", "0", "0", "0", "0", "0">>>>,
     <<<<"C", "o", "n", "c", "e", "p", "t">>, <<"A", "m", "o", "u", "n", "t">>>>,
     <<<<"R", "e", "v", "e", "n", "u", "e">>, <<" ", "N", "e", "t", " ", "I", "n", "c", "o", "m", "e", " ">>>>,
     <<TotalAssets>>,
     <<>>}
CsvTexts == UNION {[1..n -> CsvLines] : n \in 0..MaxLines}

CsvInit ==
    /\ JobsIdle
    /\ taxonomyMappings = {}
    /\ calls = <<>>
    /\ given \in [csvText : CsvTexts]
    /\ result = <<>>

\* const financialData = await parser.parse(buffer, fileName)
callParse ==
    /\ result = <<>>
    /\ "csvText" \in DOMAIN given
    /\ result' = parseCsv(given.csvText)
    /\ UNCHANGED <<queue, taxonomyMappings, calls, given>>

CsvSpec == CsvInit /\ [][callParse]_vars

\* The two calls that hand a result object to the conversion pipeline.
ResultSpec ==
    (CsvInit \/ GeneratorInit) /\ [][callParse \/ callGenerateXBRL]_vars

----------------------------------------------------------------------------
(* TaxonomyMappingService.mapFinancialItems and the update of the items in
   ConversionService.mapToTaxonomy, for the items of one statement. result
   holds the position of the call: pc, the loop variable i, inFlight, the
   number of matches of the batch that were started by batch.map and have not
   finished, the results pushed so far, and the statement's items once
   updated. *)

batchSize == 50

\* items.slice(start, end)
sliceToTheEnd(items, start, end) == SubSeq(items, start + 1, Len(items))

slice(items, start, end) ==
    SubSeq(items, start + 1, IF end < Len(items) THEN end ELSE Len(items))

\* The taxonomyMatch the XML-instance parser puts on each of its items.
ParsedMatch(concept) ==
    [xbrlTag |-> Text(concept), confidence |-> 100,
     mappingMethod |-> "exact_match"]

\* The statements drawn: up to three items with the labels of a delimited
\* table, which come without a match, or with the element names of an XML
\* instance, which come with one; and, of each of the Lengths up to MaxItems,
\* a table that repeats its first label.
MaxItems == 101
Lengths == {0, 1, batchSize - 1, batchSize, batchSize + 1, 2 * batchSize, MaxItems}
TableLabels == <<<<"C", "a", "s", "h">>, <<"G", "o", "o", "d", "w", "i", "l", "l">>, <<"t", "o", "t", "a", "l", " ", "a", "s", "s", "e", "t", "s">>>>
ElementNames == <<<<"u", "s", "-", "g", "a", "a", "p", ":", "C", "a", "s", "h">>, <<"a", "b", "c", ":", "C", "a", "s", "h", "I", "n", "V", "a", "u", "l", "t">>, <<"a", "b", "c", ":", "O", "t", "h", "e", "r">>>>
StatementItems ==
    {[k \in 1..n |->
         [concept |-> TableLabels[IF n <= 3 THEN k ELSE 1], largeValue |-> FALSE,
          taxonomyMatch |-> NoMatch]] : n \in Lengths \cup 1..3}
    \cup
    {[k \in 1..n |->
         [concept |-> ElementNames[k], largeValue |-> FALSE,
          taxonomyMatch |-> ParsedMatch(ElementNames[k])]] : n \in 1..3}

BatchInit ==
    /\ JobsIdle
    /\ taxonomyMappings = {}
    /\ calls = <<>>
    /\ given \in [items : StatementItems, sector : {"all", "banking"}]
    /\ result = [pc |-> "loop", i |-> 0, inFlight |-> 0, results |-> <<>>,
                 items |-> <<>>]

\* const batch = items.slice(i, i + batchSize); batch.map(async (item) => ...)
\* starts the match of every item of the batch.
mapBatch ==
    /\ result.pc = "loop"
    /\ result.i < Len(given.items)
    /\ result' = [result EXCEPT
          !.pc = "await",
          !.inFlight = @ + Len(slice(given.items, result.i, result.i + batchSize))]
    /\ UNCHANGED <<queue, taxonomyMappings, calls, given>>

\* One await this.mapFinancialItem(item, ...) of the batch finishes.
settleMatch ==
    /\ result.pc = "await"
    /\ result.inFlight > 0
    /\ result' = [result EXCEPT !.inFlight = @ - 1]
    /\ UNCHANGED <<queue, taxonomyMappings, calls, given>>

\* await Promise.all(batchPromises) resumes once every match of the batch has
\* finished; results.push(...batchResults); i += batchSize.
awaitBatch ==
    /\ result.pc = "await"
    /\ result.inFlight = 0
    /\ LET batch == slice(given.items, result.i, result.i + batchSize)
       IN  result' =
              [result EXCEPT
                  !.pc = "loop",
                  !.results = @ \o
                      [k \in 1..Len(batch) |->
                          [item |-> batch[k],
                           match |-> mapFinancialItem(batch[k], NoMatch,
                                                      given.sector)]],
                  !.i = @ + batchSize]
    /\ UNCHANGED <<queue, taxonomyMappings, calls, given>>

\* return results, then statement.items = statement.items.map((item, index)
\* => ...) in mapToTaxonomy.
updateItems ==
    /\ result.pc = "loop"
    /\ result.i >= Len(given.items)
    /\ result' = [result EXCEPT
          !.pc = "done",
          !.items = [index \in 1..Len(given.items) |->
                        IF index \in DOMAIN result.results
                              /\ result.results[index].match # NoMatch
                        THEN [given.items[index] EXCEPT
                                 !.taxonomyMatch = result.results[index].match]
                        ELSE given.items[index]]]
    /\ UNCHANGED <<queue, taxonomyMappings, calls, given>>

BatchSpec ==
    BatchInit /\ [][mapBatch \/ settleMatch \/ awaitBatch \/ updateItems]_vars

----------------------------------------------------------------------------
(* InMemoryJobQueue. result is the object and the calls in progress on it:
   its queue, its processing flag, for each job where the call of processJob
   for it stands (at), and the jobs in the order processJob was entered for
   them (started); added counts the addJob calls made, job n being the one
   added by call n. A step runs from one await to the next. *)

MaxJobs == 4
QueuedJobs == 1..MaxJobs

\* if (this.processing || this.queue.length === 0) return
processQueueReturnsWhenEmpty(q) == q.queue = <<>>

processQueueReturns(q) == q.processing \/ q.queue = <<>>

\* The loop of processQueue from its test on: it shifts the next job and
\* enters processJob for it, up to the first await there, or it leaves the
\* loop and clears the flag.
whileQueued(q) ==
    IF q.queue # <<>>
    THEN [q EXCEPT !.queue = Tail(@),
                   !.at[Head(q.queue)] = "updateProcessing",
                   !.started = Append(@, Head(q.queue))]
    ELSE [q EXCEPT !.processing = FALSE]

processQueue(q) ==
    IF processQueueReturns(q) THEN q
    ELSE whileQueued([q EXCEPT !.processing = TRUE])

QueueInit ==
    /\ JobsIdle
    /\ taxonomyMappings = {}
    /\ calls = <<>>
    /\ given = <<>>
    /\ result = [queue |-> <<>>, processing |-> FALSE,
                 at |-> [job \in QueuedJobs |-> "none"], started |-> <<>>,
                 added |-> 0]

\* addJob(job): this.queue.push(job); this.processQueue()
addJob ==
    /\ result.added < MaxJobs
    /\ result' = processQueue([result EXCEPT !.queue = Append(@, result.added + 1),
                                             !.added = @ + 1])
    /\ UNCHANGED <<queue, taxonomyMappings, calls, given>>

\* processJob(job) resumes after one of its awaits: updateJob to processing,
\* outside the try, the timer, updateJob to completed, and markJobAsFailed in
\* the catch block. A store call returns or throws.
processJob(job) ==
    /\ \E next \in CASE result.at[job] = "updateProcessing" -> {"timer", "threw"}
                     [] result.at[job] = "timer" -> {"updateCompleted"}
                     [] result.at[job] = "updateCompleted" -> {"returned", "markJobAsFailed"}
                     [] result.at[job] = "markJobAsFailed" -> {"returned", "threw"}
                     [] OTHER -> {} :
          result' = [result EXCEPT !.at[job] = next]
    /\ UNCHANGED <<queue, taxonomyMappings, calls, given>>

\* await this.processJob(job) in processQueue resumes, with the value or in
\* the catch block, and the loop goes on.
resumeProcessQueue(job) ==
    /\ result.at[job] \in {"returned", "threw"}
    /\ result' = whileQueued([result EXCEPT
          !.at[job] = IF @ = "threw" THEN "caught" ELSE "awaited"])
    /\ UNCHANGED <<queue, taxonomyMappings, calls, given>>

QueueSpec ==
    QueueInit /\ [][\/ addJob
                    \/ \E job \in QueuedJobs : processJob(job)
                    \/ \E job \in QueuedJobs : resumeProcessQueue(job)]_vars

----------------------------------------------------------------------------
(* Properties *)

\* The step just taken was operation op on job j.
Took(op, j) == last'.op = op /\ last'.job = j

SpecTransitions == {<<"pending", "processing">>, <<"processing", "completed">>,
                    <<"processing", "failed">>, <<"failed", "pending">>}

\* C1: every change of a job's status is pending -> processing, processing ->
\* completed, processing -> failed or failed -> pending; completed is never
\* left and a failing attempt passes through failed.
C1_OnlySpecTransitions ==
    [][\A j \in JobIds :
          (Exists(j) /\ jobs'[j].status # jobs[j].status)
             => <<jobs[j].status, jobs'[j].status>> \in SpecTransitions]_vars

\* C2 as stated: right after its third failed attempt a job is permanently
\* failed with no retry scheduled, and a retry request made after that is
\* rejected without changing the job.
C2_ThirdFailureIsPermanent ==
    [][\A j \in JobIds :
          /\ (Took("markJobAsFailed", j) /\ failures'[j] = 3)
                => (jobs'[j].status = "failed" /\ timers' = timers)
          /\ (Took("POST", j) /\ jobs[j].status = "failed" /\ failures[j] >= 3)
                => (~last'.accepted /\ jobs' = jobs /\ timers' = timers)]_vars

\* C2 amended: a failed attempt leaves the job permanently failed, with no
\* retry scheduled, exactly when retryCount had already reached 3, that is at
\* failure number 4 - m of a job with m accepted retry requests (the fourth
\* when every retry was automatic); an earlier failure returns it to pending
\* with a retry scheduled. A retry request for a job failed at retryCount 3 is
\* rejected and changes nothing.
C2_CeilingFailureIsPermanent ==
    [][\A j \in JobIds :
          /\ Took("markJobAsFailed", j) =>
                IF failures'[j] + manual'[j] = 4
                THEN /\ jobs[j].retryCount = 3
                     /\ jobs'[j].status = "failed"
                     /\ jobs'[j].retryCount = 3
                     /\ timers' = timers
                ELSE /\ failures'[j] + manual'[j] < 4
                     /\ jobs'[j].status = "pending"
                     /\ timers' # timers
          /\ (Took("POST", j) /\ jobs[j].status = "failed" /\ jobs[j].retryCount = 3)
                => (~last'.accepted /\ jobs' = jobs /\ timers' = timers)]_vars

\* C2 witness: the fourth failure of a job retried only automatically made it
\* permanently failed, and the retry request that followed was rejected.
C2_Witness ==
    \E j \in JobIds :
        /\ last.op = "POST" /\ last.job = j /\ ~last.accepted
        /\ jobs[j].status = "failed" /\ jobs[j].retryCount = 3
        /\ failures[j] = 4 /\ manual[j] = 0

\* C3: a cancellation request succeeds exactly when the job is pending or
\* processing; it then leaves the job failed with 'Job cancelled by user';
\* for a completed or failed job it is rejected and changes nothing.
C3_CancelOnlyPendingOrProcessing ==
    [][\A j \in JobIds :
          Took("DELETE", j) =>
             /\ last'.accepted <=> jobs[j].status \in {"pending", "processing"}
             /\ last'.accepted =>
                   /\ jobs'[j].status = "failed"
                   /\ jobs'[j].errorMessage = "Job cancelled by user"
             /\ ~last'.accepted => jobs' = jobs]_vars

C5_MarkJobAsFailed ==
    [][\A j \in JobIds :
          Took("markJobAsFailed", j) =>
             IF jobs[j].retryCount < 3
             THEN /\ jobs'[j].status = "pending"
                  /\ jobs'[j].progress = 0
                  /\ jobs'[j].retryCount = jobs[j].retryCount + 1
                  /\ timers' = timers \cup
                        {[job |-> j, delay |-> 5000 * jobs'[j].retryCount]}
                  /\ Cardinality(timers') = Cardinality(timers) + 1
                  /\ last'.delay \in {5000, 10000, 15000}
             ELSE /\ jobs'[j].status = "failed"
                  /\ jobs'[j].errorMessage = exc[j]
                  /\ jobs'[j].retryCount = jobs[j].retryCount
                  /\ timers' = timers]_vars

\* C5 witness: markJobAsFailed has scheduled the third retry, 15000 ms out.
C5_Witness ==
    \E j \in JobIds :
        /\ last.op = "markJobAsFailed" /\ last.job = j /\ last.delay = 15000
        /\ jobs[j].status = "pending" /\ jobs[j].retryCount = 3
        /\ [job |-> j, delay |-> 15000] \in timers

\* C6: whenever a job has been returned to pending with a retry scheduled, the
\* scheduled retry eventually moves it back into processing, so that every job
\* ends completed or failed at the ceiling.
C6_RetryReachesProcessing ==
    \A j \in JobIds :
        (jobs[j].status = "pending" /\ jobs[j].retryCount > 0)
            ~> (jobs[j].status = "processing")

ProgressOrder == <<0, 10, 30, 60, 80, 100>>

\* The step whose completion leads to each progress write.
StepBefore == [p10 |-> "retrieveDocument", p30 |-> "parseFinancialData",
               p60 |-> "mapToTaxonomy", p80 |-> "generateXBRL",
               p100 |-> "saveConversionResults"]

StepErrors ==
    {DocumentNotFound(d) : d \in DocumentIds}
        \cup {NoParserAvailable(documents[d]) : d \in DOMAIN documents}
        \cup {NoFinancialData}
        \cup {MapFailed(cause) : cause \in Causes}
        \cup {SaveFailed(cause) : cause \in Causes}

C9_MissingDocumentIsTerminal ==
    [][\A j \in JobIds :
          (Took("markJobAsFailed", j) /\ arg[j] \notin DOMAIN documents
             /\ exc[j] = DocumentNotFound(arg[j]))
             => /\ jobs'[j].status = "failed"
                /\ jobs'[j].errorMessage = DocumentNotFound(arg[j])
                /\ jobs'[j].retryCount = jobs[j].retryCount
                /\ timers' = timers]_vars

\* C10: when the parser selector returns none for the document's format the
\* job goes to permanent status failed, retryCount unchanged, nothing scheduled.
C10_NoParserIsTerminal ==
    [][\A j \in JobIds :
          (Took("markJobAsFailed", j)
             /\ arg[j] \in DOMAIN documents
             /\ parserFor[arg[j]] = "none"
             /\ exc[j] = NoParserAvailable(documents[arg[j]]))
             => /\ jobs'[j].status = "failed"
                /\ jobs'[j].retryCount = jobs[j].retryCount
                /\ timers' = timers]_vars

\* C11: initiateConversion for a document that exists returns success with the
\* id of a job it has just created (pending, progress 0, retryCount 0) before
\* any step of the processing has run, and nothing that happens to the
\* processing afterwards, success or failure, changes the result it returned.
C11_InitiateReturnsBeforeProcessing ==
    [][\A j \in JobIds :
          /\ Took("initiateConversion", j) /\ last'.accepted
             => /\ ~Exists(j)
                /\ initiated'[j].success
                /\ initiated'[j].jobId = j
                /\ initiated'[j].documentId \in DOMAIN documents
                /\ jobs'[j] = NewJob(initiated'[j].documentId)
                /\ jobs'[j].status = "pending"
                /\ jobs'[j].progress = 0
                /\ jobs'[j].retryCount = 0
                /\ pc' = pc
                /\ pc'[j] = "idle"
          /\ initiated[j].success => initiated'[j] = initiated[j]]_vars

\* The processing of an initiated job has just failed; the result stands.
C11_Witness ==
    \E j \in JobIds :
       /\ initiated[j] = Initiated(j, jobs[j].documentId)
       /\ last.op = "markJobAsFailed"
       /\ last.job = j
       /\ last.accepted
       /\ failures[j] > 0

\* C12: every attempt, a failed one included, leaves on the job record the
\* ordered log of its steps, and the log of a failed attempt has an entry with
\* status failed.
C12_FailedAttemptKeepsLog ==
    [][\A j \in JobIds :
          Took("markJobAsFailed", j) /\ last'.accepted
             => /\ jobs'[j].processingLog # <<>>
                /\ \E i \in DOMAIN jobs'[j].processingLog :
                      jobs'[j].processingLog[i].status = "failed"]_vars

C14_OneRowHighestConfidence ==
    (\A c \in Callers : calls[c].at = "done")
       => /\ Cardinality(taxonomyMappings) = 1
          /\ \A row \in taxonomyMappings :
                row.confidence = Max({calls[c].confidence : c \in Callers}
                                     \cup {prior.confidence : prior \in given})

\* generateXBRL has returned a document.
Generated == result # <<>> /\ ~result.empty

\* The ids of the context elements and of the unit elements of the document.
DeclaredContexts == {result.contexts[i].id : i \in DOMAIN result.contexts}
DeclaredUnits == {result.units[i].id : i \in DOMAIN result.units}

\* C15: in a generated document every fact's unitRef is the id of a unit
\* element of that document, whatever the target currency.
C15_UnitRefDeclared ==
    Generated =>
       \A i \in DOMAIN result.facts : result.facts[i].unitRef \in DeclaredUnits

\* C16: in a generated document every element that has a contextRef, fact or
\* entity-information element, names the id of a context element of it.
C16_ContextRefDeclared ==
    Generated =>
       /\ \A i \in DOMAIN result.facts :
             result.facts[i].contextRef \in DeclaredContexts
       /\ \A i \in DOMAIN result.entity :
             result.entity[i].contextRef \in DeclaredContexts

\* C17: a generated document has exactly one context element for each distinct
\* (period end, kind, fiscal year, fiscal quarter) of its statements, and no
\* two context elements with the same id.
C17_OneContextPerTuple ==
    Generated =>
       /\ \A n \in DOMAIN given.statements :
             Cardinality({i \in DOMAIN result.contexts :
                            result.contexts[i].id =
                               generateContextId(given.statements[n])}) = 1
       /\ \A i, k \in DOMAIN result.contexts :
             i # k => result.contexts[i].id # result.contexts[k].id

\* C18: every match of method exact_match has confidence exactly 100.
C18_ExactMatchIs100 ==
    (result # <<>> /\ result.mappingMethod = "exact_match")
       => result.confidence = 100

\* C19: every match mapFinancialItem returns with method fuzzy_match has a
\* confidence from 80 to 100, the fuzzy stage's and the fallback's alike.
C19_FuzzyMatchWithin80To100 ==
    (result # <<>> /\ result.mappingMethod = "fuzzy_match")
       => result.confidence \in 80..100

\* The tiers of the claim, read off the tables: the format id is a registered
\* key whatever its case; the MIME hint is in the MIME table; the format id,
\* without a leading dot, is a listed extension; the format id contains an
\* alias keyword.
IsRegisteredKey == parserOf(toLowerCase(given.fileType)) # "none"
IsListedMime ==
    given.mimeType # <<>>
       /\ Lookup(mimeToTypeMap, toLowerCase(given.mimeType), <<>>) # <<>>
IsListedExtension ==
    \E i \in DOMAIN extensionToTypeMap :
       toLowerCase(given.fileType) \in
          {extensionToTypeMap[i][1], <<".">> \o extensionToTypeMap[i][1]}
ContainsAlias ==
    \E i \in DOMAIN fuzzyMatches :
       Includes(toLowerCase(given.fileType), fuzzyMatches[i][1])

\* C20: getParser returns the parser of the first tier that hits, registered
\* key before MIME table before extension table before alias table, and
\* returns none exactly when all four miss: a format id, the empty one
\* included, that is no registered key, no listed extension and contains no
\* alias keyword, with no MIME hint or one not in the table, gets none.
C20_NoneWhenAllTiersMiss ==
    result # <<>> =>
       /\ IsRegisteredKey
             => result.parser = parserOf(toLowerCase(given.fileType))
       /\ ~IsRegisteredKey /\ ~IsListedMime /\ ~IsListedExtension
             /\ ~ContainsAlias
             => result.parser = "none"

\* C21: every line item a parser emits carries no value when its nil flag is
\* set and a value that is not null when it is not set; what sanitises to
\* null is dropped or emitted as nil.
C21_NilIffNoValue ==
    (result # <<>> /\ "item" \in DOMAIN result /\ ~result.item.dropped)
       => (result.item.isNil <=> result.item.value = NullValue)

\* The raw text of the call is "(" inner ")", and the number inner spells
\* once its formatting characters are gone.
Parenthesised ==
    /\ given.value.type = "string"
    /\ Len(given.value.s) > 2
    /\ given.value.s[1] = "("
    /\ given.value.s[Len(given.value.s)] = ")"
SpelledNumber ==
    parseFloat(SelectSeq(given.value.s,
                         LAMBDA ch : ch \notin {"$", ",", "(", ")", " "}))

\* C29: sanitisation turns a parenthesised number "(n)", with or without a
\* currency symbol and thousands separators, into -n, and the same text
\* without the parentheses into +n.
C29_ParenthesesNegate ==
    (/\ result # <<>> /\ "sanitized" \in DOMAIN result
     /\ given.value.type = "string" /\ SpelledNumber # NaN
     /\ given.value.s[1] \in {"(", "$"} \cup Digits)
       => result.sanitized =
             [type |-> "number",
              n |-> IF Parenthesised THEN 0 - SpelledNumber.n
                    ELSE SpelledNumber.n]

\* A table of (label, amount) rows: an optional header line, then one line of
\* two cells per row, a label that is no number and an amount that is one.
IsAmount(cell) == cell # <<>> /\ \A i \in 1..Len(cell) : cell[i] \in Digits
IsPairRow(line) == Len(line) = 2 /\ ~IsAmount(line[1]) /\ IsAmount(line[2])
TableRows(csvText) == SelectSeq(csvText, LAMBDA line : IsAmount(line[2]))
IsPairTable(csvText) ==
    /\ csvText # <<>>
    /\ \A i \in 1..Len(csvText) :
          \/ IsPairRow(csvText[i])
          \/ i = 1 /\ Len(csvText[i]) = 2 /\ ~IsAmount(csvText[i][2])
    /\ \E i \in 1..Len(csvText) : IsPairRow(csvText[i])

\* C30: for a table whose rows are (label, amount) pairs the parser emits one
\* statement with exactly one line item per row, whose concept is the row's
\* label and whose value is the row's amount; for the rows ("Cash and Cash
\* Equivalents", 1000000) and ("Total Assets", 5000000) it is a balance sheet
\* with exactly 2 items.
C30_OneItemPerRow ==
    (result # <<>> /\ "csvText" \in DOMAIN given /\ IsPairTable(given.csvText))
       => LET rows == TableRows(given.csvText) IN
          /\ Len(result.financialStatements) = 1
          /\ result.financialStatements[1].items =
                [i \in 1..Len(rows) |->
                    [concept |-> rows[i][1], value |-> parseFloat(rows[i][2])]]
          /\ Len(rows) = 2 /\ rows[1][1] = CashAndCashEquivalents
                            /\ rows[2][1] = TotalAssets
                => /\ result.financialStatements[1].type = "balance_sheet"
                   /\ Len(result.financialStatements[1].items) = 2

ExactCandidate == findExactMapping(given.item.concept, given.stored)
FuzzyCandidate == findFuzzyMatch(given.item.concept, given.sectorContext)
AssistedCandidate ==
    getAIMapping(given.item.concept, given.item.largeValue, given.sectorContext)
Meets(candidate, threshold) ==
    candidate # NoMatch /\ candidate.confidence >= threshold
Returns(candidate) ==
    /\ result # NoMatch
    /\ candidate # NoMatch
    /\ result.xbrlTag = candidate.xbrlTag
    /\ result.confidence = candidate.confidence

\* C23: mapFinancialItem returns the exact candidate when its confidence is
\* at least 95, else the fuzzy one when at least 80, else the assisted one
\* when at least 70, else the candidate of the highest confidence when that is
\* at least 60, else none; so a returned match has confidence at least 60.
C23_StagedThresholds ==
    result # <<>> =>
       LET candidates == {ExactCandidate, FuzzyCandidate, AssistedCandidate}
                            \ {NoMatch}
       IN  /\ IF Meets(ExactCandidate, 95) THEN Returns(ExactCandidate)
              ELSE IF Meets(FuzzyCandidate, 80) THEN Returns(FuzzyCandidate)
              ELSE IF Meets(AssistedCandidate, 70) THEN Returns(AssistedCandidate)
              ELSE IF \E c \in candidates : c.confidence >= 60
              THEN \E c \in candidates :
                      /\ Returns(c)
                      /\ \A d \in candidates : d.confidence <= c.confidence
              ELSE result = NoMatch
           /\ result # NoMatch => result.confidence >= 60

\* C23 witness: no stage met its threshold and the stored mapping, of a
\* confidence from 60 to 94, was returned as the best of the candidates.
C23_Witness ==
    /\ result # <<>>
    /\ ~Meets(ExactCandidate, 95)
    /\ ~Meets(FuzzyCandidate, 80)
    /\ ~Meets(AssistedCandidate, 70)
    /\ Returns(ExactCandidate)
    /\ result.confidence >= 60

\* C27: mapFinancialItems returns exactly one result per item, in the order
\* of the items, for every number of items; the matches run in consecutive
\* batches of at most batchSize, and a batch is started only when no match of
\* an earlier batch is still unfinished, so never more than batchSize matches
\* are in flight.
C27_BatchesOfAtMostFifty ==
    /\ [](/\ result.inFlight <= batchSize
          /\ result.pc = "done" =>
                /\ Len(result.results) = Len(given.items)
                /\ \A k \in 1..Len(given.items) :
                      result.results[k].item = given.items[k])
    /\ [][/\ result'.inFlight > result.inFlight => result.inFlight = 0
          /\ Len(result'.results) > Len(result.results) =>
                /\ Len(result'.results) - Len(result.results) <= batchSize
                /\ result'.results =
                      result.results \o
                         [k \in 1..(Len(result'.results) - Len(result.results)) |->
                             result'.results[Len(result.results) + k]]]_vars

\* C27 witness: a statement of two full batches and one more item was mapped,
\* one result per item.
C27_Witness ==
    /\ result.pc = "done"
    /\ Len(given.items) = 2 * batchSize + 1
    /\ Len(result.results) = 2 * batchSize + 1

\* C24: an item that carries a TaxonomyMatch when matching starts carries the
\* identical TaxonomyMatch after mapToTaxonomy.
C24_ParsedMatchKept ==
    result.pc = "done" =>
       \A k \in 1..Len(given.items) :
          given.items[k].taxonomyMatch # NoMatch
             => result.items[k].taxonomyMatch = given.items[k].taxonomyMatch

\* The items of the statements given to the generator, in document order.
GivenItems ==
    LET upTo[n \in 0..Len(given.statements)] ==
            IF n = 0 THEN <<>> ELSE upTo[n - 1] \o given.statements[n].items
    IN  upTo[Len(given.statements)]

\* C28: a fact is named by the tag of its item's match when the item has one,
\* otherwise by the default namespace and the letters and digits of the
\* concept; an item for which no tag can be formed gets no fact and an entry
\* in the validation issues, and the facts of the other items are generated.
C28_OmittedFactIsReported ==
    Generated =>
       LET usable == SelectSeq(GivenItems,
                        LAMBDA item : item.xbrlTag # "" \/ item.concept # <<>>)
       IN  /\ Len(result.facts) = Len(usable)
           /\ \A i \in 1..Len(usable) :
                 usable[i].xbrlTag # "" => result.facts[i].name = usable[i].xbrlTag
           /\ Len(usable) < Len(GivenItems) => result.validationIssues >= 1

\* The generation of the attempt logged in entries returned its failure
\* result: no document, no framework, the issue 'Generation failed'.
GenerationFailedIn(entries) ==
    \E i \in 1..Len(entries) :
       /\ entries[i].step = "generating_xbrl"
       /\ entries[i].status = "completed"
       /\ entries[i].frameworks = 0

InsideProcessJob ==
    {job \in QueuedJobs :
        result.at[job] \in {"updateProcessing", "timer", "updateCompleted",
                            "markJobAsFailed"}}

\* C25: whatever the interleaving of addJob calls, at most one job is inside
\* processJob at a time, the jobs are started in the order they were added,
\* each once, and no added job is left unstarted when the queue goes idle,
\* also when the processing of an earlier job throws.
C25_OneAtATimeInOrder ==
    /\ Cardinality(InsideProcessJob) <= 1
    /\ Len(result.started) <= result.added
    /\ \A n \in 1..Len(result.started) : result.started[n] = n
    /\ result.queue = [n \in 1..Len(result.queue) |-> Len(result.started) + n]
    /\ Len(result.started) + Len(result.queue) = result.added
    /\ ~result.processing => result.queue = <<>>

\* C25 witness: the processing of job 1 threw while jobs 2 and 3 were
\* queued behind it, and job 2 is inside processJob with job 3 still queued.
C25_Witness ==
    /\ result.at[1] = "caught"
    /\ result.at[2] \in {"updateProcessing", "timer"}
    /\ result.started = <<1, 2>>
    /\ result.queue = <<3>>
====
